---------------------------- MODULE Spec2Model ----------------------------
(***************************************************************************)
(* Model of the Lark <-> Flowise relay (src/index.js): the POST /webhook   *)
(* handler, the dedup set, the per-session conversation histories, the     *)
(* command router and the reply sender.                                    *)
(*                                                                         *)
(* A JavaScript string is modelled as a sequence of tokens: a word, a      *)
(* blank " ", the mention "@_user_1", a slash "/" or an asterisk "*" is    *)
(* one token each.  An async handler runs without interruption up to the   *)
(* next await of real I/O (a Lark send, the Flowise fetch); each action    *)
(* below is one such run.                                                  *)
(***************************************************************************)
EXTENDS Integers, Sequences, FiniteSets, TLC

\* the program's state
VARIABLES
  processedEvents,        \* the Set of handled event ids
  conversationHistories,  \* the Map sessionId -> array (0: no entry)
  heap,                   \* the history arrays, by reference
  h,                      \* the handlers in flight
  env                     \* LARK_APP_ID, LARK_APP_SECRET

\* the requests still to come, and the record of the handler that ended last
VARIABLES budget, last

\* what has happened so far, per event id and per session
VARIABLES
  delivered,    \* deliveries that reached the dedup guard
  guardPasses,  \* deliveries that passed it
  dupAcks,      \* deliveries answered "Duplicate event"
  replyCalls,   \* calls of reply()
  askCalls,     \* calls of the Flowise API
  failures,     \* event ids whose handler met a failed send or a failed
                \* Flowise call
  clearedLast,  \* the session's latest command or question was "/clear"
  pure,         \* the session has seen only successful exchanges, one at a time
  exchanges     \* the (question, answer) pairs of a pure session since its
                \* history was last absent

vars == <<processedEvents, conversationHistories, heap, h, env, budget, last,
          delivered, guardPasses, dupAcks, replyCalls, askCalls, failures,
          clearedLast, pure, exchanges>>

-----------------------------------------------------------------------------
(* Bounds *)

\* number of webhook handlers that can be in flight at once
MaxInFlight == 2

\* number of POST /webhook requests in one behaviour of Spec
MaxReq == 2

\* number of POST /webhook requests in one behaviour of SpecSession
MaxSessionReq == 3
MaxPairReq == 3
MaxImageReq == 2

Slots == 1..MaxInFlight

-----------------------------------------------------------------------------
(* Strings *)

\* mutant: no text is taken for a command
StartsWithNever(s, tok) == FALSE

\* String.prototype.startsWith
StartsWith(s, tok) == Len(s) > 0 /\ s[1] = tok

\* String.prototype.replace(tok, ""): removes the first occurrence only
RemoveFirst(s, tok) ==
  IF \E i \in 1..Len(s) : s[i] = tok
  THEN LET i == CHOOSE k \in 1..Len(s) :
                  s[k] = tok /\ \A j \in 1..(k - 1) : s[j] # tok
       IN  SubSeq(s, 1, i - 1) \o SubSeq(s, i + 1, Len(s))
  ELSE s

\* String.prototype.trim
Trim(s) ==
  IF \A i \in 1..Len(s) : s[i] = " "
  THEN <<>>
  ELSE LET a == CHOOSE k \in 1..Len(s) :
                  s[k] # " " /\ \A j \in 1..(k - 1) : s[j] = " "
           b == CHOOSE k \in 1..Len(s) :
                  s[k] # " " /\ \A j \in (k + 1)..Len(s) : s[j] = " "
       IN  SubSeq(s, a, b)

\* Array.prototype.join(" ")
RECURSIVE Join(_)
Join(hist) ==
  IF Len(hist) = 0 THEN <<>>
  ELSE IF Len(hist) = 1 THEN hist[1]
  ELSE hist[1] \o <<" ">> \o Join(Tail(hist))

\* text.replace(/\*\*(.*?)\*\*/g, "<b>$1</b>")
RECURSIVE ReplaceBold(_)
ReplaceBold(s) ==
  LET IsOpen(i) == /\ s[i] = "*" /\ s[i + 1] = "*"
                   /\ \E j \in (i + 2)..(Len(s) - 1) : s[j] = "*" /\ s[j + 1] = "*"
  IN  IF \E i \in 1..(Len(s) - 1) : IsOpen(i)
      THEN LET i == CHOOSE k \in 1..(Len(s) - 1) :
                      IsOpen(k) /\ \A m \in 1..(k - 1) : ~IsOpen(m)
               j == CHOOSE k \in (i + 2)..(Len(s) - 1) :
                      /\ s[k] = "*" /\ s[k + 1] = "*"
                      /\ \A m \in (i + 2)..(k - 1) : ~(s[m] = "*" /\ s[m + 1] = "*")
           IN  SubSeq(s, 1, i - 1) \o <<"<b>">> \o SubSeq(s, i + 2, j - 1)
                 \o <<"</b>">> \o ReplaceBold(SubSeq(s, j + 2, Len(s)))
      ELSE s

\* text.replace(/\*(.*?)\*/g, "<i>$1</i>")
RECURSIVE ReplaceItalic(_)
ReplaceItalic(s) ==
  LET IsOpen(i) == s[i] = "*" /\ \E j \in (i + 1)..Len(s) : s[j] = "*"
  IN  IF \E i \in 1..Len(s) : IsOpen(i)
      THEN LET i == CHOOSE k \in 1..Len(s) :
                      IsOpen(k) /\ \A m \in 1..(k - 1) : ~IsOpen(m)
               j == CHOOSE k \in (i + 1)..Len(s) :
                      s[k] = "*" /\ \A m \in (i + 1)..(k - 1) : s[m] # "*"
           IN  SubSeq(s, 1, i - 1) \o <<"<i>">> \o SubSeq(s, i + 1, j - 1)
                 \o <<"</i>">> \o ReplaceItalic(SubSeq(s, j + 1, Len(s)))
      ELSE s

formatMarkdown(text) == ReplaceItalic(ReplaceBold(text))

-----------------------------------------------------------------------------
(* Inputs: request bodies, Flowise results, process environment *)

\* header.event_id is an opaque string; the k-th distinct id that reaches the
\* dedup guard is named k
EventIds == 1..4

\* chat_id and sender user_id, as strings
Chats == {<<"a">>, <<"a", "b">>}
Senders == {<<"b", "c">>, <<"c">>}

\* `${chatId}${senderId}`
SessionIdOf(chatId, senderId) == chatId \o senderId

SessionIds == {SessionIdOf(c, u) : c \in Chats, u \in Senders}

\* message.content: a JSON document
BadJson == [parses |-> "bad", hasText |-> FALSE, text |-> <<>>]
NullJson == [parses |-> "null", hasText |-> FALSE, text |-> <<>>]
NoTextJson == [parses |-> "obj", hasText |-> FALSE, text |-> <<>>]
TextJson(t) == [parses |-> "obj", hasText |-> TRUE, text |-> t]

NoPayload ==
  [type |-> "none", challenge |-> "", encrypt |-> FALSE, hasHeader |-> FALSE,
   eventType |-> "", eventId |-> 0, hasEvent |-> FALSE, messageId |-> <<>>,
   chatId |-> <<>>, senderId |-> <<>>, messageType |-> "", content |-> BadJson]

MessageEvent(eid, chat, sender, mtype, content) ==
  [NoPayload EXCEPT !.type = "event_callback", !.hasHeader = TRUE,
     !.eventType = "im.message.receive_v1", !.eventId = eid, !.hasEvent = TRUE,
     !.messageId = <<"om_", eid>>, !.chatId = chat, !.senderId = sender,
     !.messageType = mtype, !.content = content]

QuestionTexts ==
  { <<"@_user_1", " ", "hello">>, <<" ", "chart", " ">> }

CommandTexts ==
  { <<"/", "clear">>, <<"@_user_1", " ", "/", "help">>, <<"/", "foo">> }

EmptyTexts == { <<"@_user_1", " ">> }

\* request bodies of Spec: every kind of body, one session
Payloads ==
  { [NoPayload EXCEPT !.type = "url_verification", !.challenge = "abc"],
    [NoPayload EXCEPT !.encrypt = TRUE],
    NoPayload,
    [NoPayload EXCEPT !.hasHeader = TRUE, !.eventType = "im.chat.updated_v1",
                      !.eventId = 1],
    [NoPayload EXCEPT !.hasHeader = TRUE, !.eventType = "im.message.receive_v1",
                      !.eventId = 1],
    [MessageEvent(1, <<"a">>, <<"c">>, "text", TextJson(<<"/", "clear">>))
       EXCEPT !.type = "url_verification", !.challenge = "abc", !.encrypt = TRUE],
    [MessageEvent(1, <<"a">>, <<"c">>, "text", TextJson(<<"/", "clear">>))
       EXCEPT !.encrypt = TRUE] }
  \cup { MessageEvent(e, <<"a">>, <<"c">>, "text", TextJson(t)) :
           e \in EventIds,
           t \in {<<"@_user_1", " ", "hello">>} \cup CommandTexts \cup EmptyTexts }
  \cup { MessageEvent(e, <<"a">>, <<"c">>, "text", c) :
           e \in EventIds, c \in {BadJson, NullJson, NoTextJson} }
  \cup { MessageEvent(e, <<"a">>, <<"c">>, "image", BadJson) : e \in EventIds }

\* request bodies of SpecSession: the questions and "/clear" of one session
SessionPayloads ==
  { MessageEvent(e, <<"a">>, <<"c">>, "text", TextJson(t)) :
      e \in EventIds, t \in QuestionTexts \cup {<<"/", "clear">>} }

\* request bodies of SpecAsk: the questions of one session, no command
AskPayloads ==
  { MessageEvent(e, <<"a">>, <<"c">>, "text", TextJson(t)) :
      e \in EventIds, t \in QuestionTexts }

\* request bodies of SpecPairs: three (chat, sender) pairs, two of which
\* have the same concatenation
PairPayloads ==
  { MessageEvent(e, <<"a">>, <<"c">>, "text", TextJson(t)) :
      e \in EventIds, t \in {<<"@_user_1", " ", "hello">>, <<"/", "foo">>} }
  \cup { MessageEvent(e, <<"a", "b">>, <<"c">>, "text",
                      TextJson(<<"@_user_1", " ", "hello">>)) : e \in EventIds }
  \cup { MessageEvent(e, <<"a">>, <<"b", "c">>, "text", TextJson(t)) :
           e \in EventIds, t \in {<<" ", "chart", " ">>, <<"/", "clear">>} }

\* request bodies of SpecImage: the questions of one session, with and
\* without the words that select the image path, an empty text and a content
\* without text
ImagePayloads ==
  { MessageEvent(e, <<"a">>, <<"c">>, "text", c) :
      e \in EventIds,
      c \in { TextJson(<<"@_user_1", " ", "hello">>),
              TextJson(<<"@_user_1", " ", "Histogram">>),
              TextJson(<<"@_user_1", " ">>),
              NoTextJson } }

\* artifacts of a Flowise result
Png(key) == [type |-> "png", data |-> key]
Other(key) == [type |-> "html", data |-> key]

\* what the fetch of FLOWISE_API_URL and response.json() can yield
NetworkError ==
  [net |-> "error", hasText |-> FALSE, text |-> <<>>, hasArtifacts |-> FALSE,
   artifacts |-> <<>>]
FlowiseResults ==
  { NetworkError,
    [NetworkError EXCEPT !.net = "badjson"],
    [NetworkError EXCEPT !.net = "ok"],
    [NetworkError EXCEPT !.net = "ok", !.hasText = TRUE],
    [NetworkError EXCEPT !.net = "ok", !.hasText = TRUE, !.text = <<"hi">>],
    [NetworkError EXCEPT !.net = "ok", !.hasText = TRUE,
       !.text = <<"*", "*", "x", "*", "*", " ", "*", "y", "*">>,
       !.hasArtifacts = TRUE,
       !.artifacts = <<Png("k1"), Other("k2"), Png("k3")>>] }

\* LARK_APP_ID, LARK_APP_SECRET
Envs ==
  { [appId |-> <<"cli_", "x">>, appSecret |-> <<"s">>],
    [appId |-> <<"x">>, appSecret |-> <<"s">>],
    [appId |-> <<>>, appSecret |-> <<"s">>] }

-----------------------------------------------------------------------------
(* Fixed texts and response bodies *)

OnlyTextMsg == <<"Only text messages are supported.">>
InvalidInputMsg == <<"Invalid input received. Please provide a valid question.">>
ErrorMsg == <<"An error occurred while processing your request.">>
ClearedMsg == <<"Conversation history cleared.">>
helpText == <<"Lark GPT Commands", "/clear", "/help">>

\* the string "Help" passed as `artifacts`: iterating it yields its
\* characters, none of which has a type
HelpArtifacts ==
  << [type |-> "undefined", data |-> "H"], [type |-> "undefined", data |-> "e"],
     [type |-> "undefined", data |-> "l"], [type |-> "undefined", data |-> "p"] >>

\* no res.json() call has happened
NoResponse == [body |-> "none", code |-> -1, message |-> "", challenge |-> ""]
\* the handler's promise rejected; nothing was sent
Unhandled == [NoResponse EXCEPT !.body = "unhandled rejection"]
\* res.json(undefined)
JsonUndefined == [NoResponse EXCEPT !.body = "empty"]
\* res.json(<the response of client.im.message.reply>)
LarkResponse == [NoResponse EXCEPT !.body = "lark response"]
Code(c, m) == [NoResponse EXCEPT !.body = "json", !.code = c, !.message = m]
Challenge(c) == [NoResponse EXCEPT !.body = "json", !.challenge = c]

validateAppConfig(e) ==
  IF e.appId = <<>> \/ e.appSecret = <<>>
  THEN Code(1, "Missing Lark App ID or Secret")
  ELSE IF ~StartsWith(e.appId, "cli_")
  THEN Code(1, "Lark App ID must start with 'cli_'")
  ELSE Code(0, "Lark App configuration is valid.")

-----------------------------------------------------------------------------
(* Handler state *)

NoPrompt == [made |-> FALSE, prompt |-> <<>>]

\* what the handler knows of the Flowise result: its text and artifacts
NoAnswer == [text |-> <<>>, hasArtifacts |-> FALSE, artifacts |-> <<>>]
AnswerOf(res) ==
  [text |-> res.text, hasArtifacts |-> res.hasArtifacts, artifacts |-> res.artifacts]

Idle ==
  [pc |-> "idle", p |-> NoPayload, sessionId |-> <<>>, history |-> 0,
   question |-> <<>>, cont |-> "", arts |-> <<>>, out |-> <<>>,
   asked |-> NoPrompt, afterClear |-> FALSE, flowise |-> "",
   answer |-> NoAnswer, passed |-> FALSE, upload |-> "",
   resp |-> NoResponse]

Init ==
  /\ processedEvents = {}
  /\ conversationHistories = [s \in SessionIds |-> 0]
  /\ heap = <<>>
  /\ h = [r \in Slots |-> Idle]
  /\ last = Idle
  /\ budget = MaxReq
  /\ env \in Envs
  /\ delivered = [e \in EventIds |-> 0]
  /\ replyCalls = [e \in EventIds |-> 0]
  /\ askCalls = [e \in EventIds |-> 0]
  /\ guardPasses = [e \in EventIds |-> 0]
  /\ dupAcks = [e \in EventIds |-> 0]
  /\ failures = {}
  /\ clearedLast = [s \in SessionIds |-> FALSE]
  /\ pure = [s \in SessionIds |-> TRUE]
  /\ exchanges = [s \in SessionIds |-> <<>>]

-----------------------------------------------------------------------------
(* Shared helpers of the handler steps *)

\* the slot that takes the next request: the lowest free one
FreeSlots ==
  IF budget = 0 THEN {}
  ELSE {r \in Slots : h[r].pc = "idle" /\ \A q \in 1..(r - 1) : h[q].pc # "idle"}

\* a request arrives and its handler starts
Arrive(r, p) ==
  /\ r \in FreeSlots
  /\ p.hasHeader /\ p.hasEvent =>
       \A e \in 1..(p.eventId - 1) : delivered[e] > 0
  /\ budget' = budget - 1

\* res.json(resp): the handler is over
Respond(r, rec, resp) ==
  /\ h' = [h EXCEPT ![r] = Idle]
  /\ last' = [rec EXCEPT !.pc = "done", !.resp = resp]

\* an exception leaves the async handler: no res.json() call
Reject(r, rec) ==
  /\ h' = [h EXCEPT ![r] = Idle]
  /\ last' = [rec EXCEPT !.pc = "rejected", !.resp = Unhandled]

IsMessageEvent(p) ==
  /\ p.type # "url_verification" /\ ~p.encrypt /\ p.hasHeader
  /\ p.eventType = "im.message.receive_v1"

\* mutant: the guard never finds an id
DedupHasNever(set, eventId) == FALSE

\* processedEvents.has(eventId)
DedupHas(set, eventId) == eventId \in set

\* mutant: the id is not recorded
DedupAddNothing(set, eventId) == set

\* processedEvents.add(eventId)
DedupAdd(set, eventId) == set \cup {eventId}

\* a message event that passes the dedup guard
FirstDelivery(p) ==
  /\ IsMessageEvent(p) /\ p.hasEvent
  /\ ~DedupHas(processedEvents, p.eventId)

Passed(r, p) ==
  [Idle EXCEPT !.p = p, !.passed = TRUE,
               !.sessionId = SessionIdOf(p.chatId, p.senderId)]

MarkProcessed(p) ==
  /\ processedEvents' = DedupAdd(processedEvents, p.eventId)
  /\ delivered' = [delivered EXCEPT ![p.eventId] = @ + 1]
  /\ guardPasses' = [guardPasses EXCEPT ![p.eventId] = @ + 1]

\* JSON.parse(content) succeeded and gave an object
Parsed(p) == p.messageType = "text" /\ p.content.parses = "obj"

\* userInput.text ? userInput.text.replace("@_user_1", "").trim() : null
\* (null and the empty string are both falsy: <<>> stands for either)
QuestionOf(userInput) ==
  IF userInput.hasText /\ userInput.text # <<>>
  THEN Trim(RemoveFirst(userInput.text, "@_user_1"))
  ELSE <<>>

TextMessage(content) ==
  [msg_type |-> "text", content |-> formatMarkdown(content), status |-> "pending"]

ImageMessage(artifact) ==
  [msg_type |-> "image", content |-> <<artifact.data>>, status |-> "pending"]

\* reply(messageId, content, artifacts) up to its first await: the text
\* message is handed to client.im.message.reply
reply(rec, content, artifacts, cont) ==
  [rec EXCEPT !.pc = "send", !.out = Append(@, TextMessage(content)),
              !.arts = artifacts, !.cont = cont]

CountReply(p) == replyCalls' = [replyCalls EXCEPT ![p.eventId] = @ + 1]

\* the artifacts the for-loop of reply still sends a message for
SendsMessage(artifact) == artifact.type = "png"

RECURSIVE SkipUnsent(_)
SkipUnsent(arts) ==
  IF arts = <<>> \/ SendsMessage(Head(arts)) THEN arts ELSE SkipUnsent(Tail(arts))

\* mutant: every path passes reply's result to res.json
AckResult(rec) == JsonUndefined

\* what the handler passes to res.json once reply has returned
Ack(rec) == IF rec.cont = "code0" THEN Code(0, "") ELSE JsonUndefined

-----------------------------------------------------------------------------
(* app.post("/webhook"): from the arrival of a request to the first await *)

UrlVerification(r, p) ==
  /\ p.type = "url_verification"
  /\ Arrive(r, p)
  /\ Respond(r, [Idle EXCEPT !.p = p], Challenge(p.challenge))
  /\ UNCHANGED <<processedEvents, conversationHistories, heap, env, delivered,
                 replyCalls, askCalls, guardPasses, dupAcks>>
  /\ UNCHANGED <<failures, clearedLast, pure, exchanges>>

\* mutant: the encrypt test comes before the url_verification test
EncryptedPayloadFirst(r, p) ==
  /\ p.encrypt
  /\ Arrive(r, p)
  /\ Respond(r, [Idle EXCEPT !.p = p],
             Code(1, "Encryption is enabled, please disable it."))
  /\ UNCHANGED <<processedEvents, conversationHistories, heap, env, delivered,
                 replyCalls, askCalls, guardPasses, dupAcks>>
  /\ UNCHANGED <<failures, clearedLast, pure, exchanges>>

\* if (params.encrypt)
EncryptedPayload(r, p) ==
  /\ p.type # "url_verification" /\ p.encrypt
  /\ Arrive(r, p)
  /\ Respond(r, [Idle EXCEPT !.p = p],
             Code(1, "Encryption is enabled, please disable it."))
  /\ UNCHANGED <<processedEvents, conversationHistories, heap, env, delivered,
                 replyCalls, askCalls, guardPasses, dupAcks>>
  /\ UNCHANGED <<failures, clearedLast, pure, exchanges>>

ConfigSelfCheck(r, p) ==
  /\ p.type # "url_verification" /\ ~p.encrypt /\ ~p.hasHeader
  /\ Arrive(r, p)
  /\ Respond(r, [Idle EXCEPT !.p = p], validateAppConfig(env))
  /\ UNCHANGED <<processedEvents, conversationHistories, heap, env, delivered,
                 replyCalls, askCalls, guardPasses, dupAcks>>
  /\ UNCHANGED <<failures, clearedLast, pure, exchanges>>

UnknownEvent(r, p) ==
  /\ p.type # "url_verification" /\ ~p.encrypt /\ p.hasHeader
  /\ p.eventType # "im.message.receive_v1"
  /\ Arrive(r, p)
  /\ Respond(r, [Idle EXCEPT !.p = p], Code(2, ""))
  /\ UNCHANGED <<processedEvents, conversationHistories, heap, env, delivered,
                 replyCalls, askCalls, guardPasses, dupAcks>>
  /\ UNCHANGED <<failures, clearedLast, pure, exchanges>>

\* params.event is undefined: the destructuring throws a TypeError
MalformedEvent(r, p) ==
  /\ IsMessageEvent(p) /\ ~p.hasEvent
  /\ Arrive(r, p)
  /\ Reject(r, [Idle EXCEPT !.p = p])
  /\ UNCHANGED <<processedEvents, conversationHistories, heap, env, delivered,
                 replyCalls, askCalls, guardPasses, dupAcks>>
  /\ UNCHANGED <<failures, clearedLast, pure, exchanges>>

DuplicateEvent(r, p) ==
  /\ IsMessageEvent(p) /\ p.hasEvent
  /\ DedupHas(processedEvents, p.eventId)
  /\ Arrive(r, p)
  /\ Respond(r, [Idle EXCEPT !.p = p,
                             !.sessionId = SessionIdOf(p.chatId, p.senderId)],
             Code(0, "Duplicate event"))
  /\ delivered' = [delivered EXCEPT ![p.eventId] = @ + 1]
  /\ dupAcks' = [dupAcks EXCEPT ![p.eventId] = @ + 1]
  /\ UNCHANGED <<processedEvents, conversationHistories, heap, env,
                 replyCalls, askCalls, guardPasses>>
  /\ UNCHANGED <<failures, clearedLast, pure, exchanges>>

NonTextMessage(r, p) ==
  /\ FirstDelivery(p)
  /\ p.messageType # "text"
  /\ Arrive(r, p)
  /\ MarkProcessed(p)
  /\ h' = [h EXCEPT ![r] = reply(Passed(r, p), OnlyTextMsg, <<>>, "code0")]
  /\ CountReply(p)
  /\ UNCHANGED <<conversationHistories, heap, last, env, askCalls, dupAcks>>
  /\ UNCHANGED <<failures, clearedLast, pure, exchanges>>

\* JSON.parse throws, or yields null and userInput.text throws in handleReply
ContentParseFailure(r, p) ==
  /\ FirstDelivery(p)
  /\ p.messageType = "text"
  /\ p.content.parses \in {"bad", "null"}
  /\ Arrive(r, p)
  /\ MarkProcessed(p)
  /\ Reject(r, Passed(r, p))
  /\ UNCHANGED <<conversationHistories, heap, env, replyCalls, askCalls, dupAcks>>
  /\ UNCHANGED <<failures, clearedLast, pure, exchanges>>

InvalidInput(r, p) ==
  /\ FirstDelivery(p)
  /\ Parsed(p)
  /\ QuestionOf(p.content) = <<>>
  /\ Arrive(r, p)
  /\ MarkProcessed(p)
  /\ h' = [h EXCEPT ![r] = reply(Passed(r, p), InvalidInputMsg, <<>>, "result")]
  /\ CountReply(p)
  /\ UNCHANGED <<conversationHistories, heap, last, env, askCalls, dupAcks>>
  /\ UNCHANGED <<failures, clearedLast, pure, exchanges>>

\* a handler of the session is awaiting the Flowise API
Awaiting(sessionId) ==
  \E q \in Slots : h[q].pc = "fetch" /\ h[q].sessionId = sessionId

IsCommand(p) ==
  /\ Parsed(p)
  /\ QuestionOf(p.content) # <<>>
  /\ StartsWith(QuestionOf(p.content), "/")

\* cmdProcess: "/help" and the default case
cmdHelp(r, p) ==
  /\ FirstDelivery(p)
  /\ IsCommand(p)
  /\ QuestionOf(p.content) # <<"/", "clear">>
  /\ Arrive(r, p)
  /\ MarkProcessed(p)
  /\ h' = [h EXCEPT ![r] =
             reply([Passed(r, p) EXCEPT !.question = QuestionOf(p.content)],
                   helpText, HelpArtifacts, "result")]
  /\ CountReply(p)
  /\ UNCHANGED <<conversationHistories, heap, last, env, askCalls, dupAcks>>
  /\ UNCHANGED <<failures, clearedLast, pure, exchanges>>

\* mutant: conversationHistories.clear()
DeleteAll(map, sessionId) == [s \in DOMAIN map |-> 0]

\* conversationHistories.delete(sessionId)
Delete(map, sessionId) == [map EXCEPT ![sessionId] = 0]

\* cmdProcess: "/clear"
cmdClear(r, p) ==
  /\ FirstDelivery(p)
  /\ IsCommand(p)
  /\ QuestionOf(p.content) = <<"/", "clear">>
  /\ Arrive(r, p)
  /\ MarkProcessed(p)
  /\ conversationHistories' =
       Delete(conversationHistories, SessionIdOf(p.chatId, p.senderId))
  /\ h' = [h EXCEPT ![r] =
             reply([Passed(r, p) EXCEPT !.question = QuestionOf(p.content)],
                   ClearedMsg, <<>>, "result")]
  /\ CountReply(p)
  /\ UNCHANGED <<heap, last, env, askCalls, dupAcks>>
  /\ LET sessionId == SessionIdOf(p.chatId, p.senderId)
     IN  /\ clearedLast' = [clearedLast EXCEPT ![sessionId] = TRUE]
         /\ IF Awaiting(sessionId)
            THEN pure' = [pure EXCEPT ![sessionId] = FALSE]
            ELSE UNCHANGED pure
         /\ exchanges' = [exchanges EXCEPT ![sessionId] = <<>>]
  /\ UNCHANGED failures

-----------------------------------------------------------------------------
(* queryFlowise and the rest of handleReply *)

\* mutant: the array is replaced by one that holds the new element only
PushAlone(history, x) == <<x>>

\* mutant: unshift instead of push
PushFront(history, x) == <<x>> \o history

\* history.push(x)
Push(history, x) == Append(history, x)

\* JSON.stringify({ question: history.join(" ") })
PromptOf(history) == Join(history)

\* mutant: the result's text is not checked
HasAnswerUnchecked(res) == res.net = "ok"

\* result.text is truthy
HasAnswer(res) == res.net = "ok" /\ res.hasText /\ res.text # <<>>

\* const { text, artifacts = [] } = flowiseResponse
ArtifactsOf(res) == IF res.hasArtifacts THEN res.artifacts ELSE <<>>

\* mutant: every call starts from a new array
HistoryRefFresh(sessionId) == Len(heap) + 1

\* conversationHistories.get(sessionId) || [] : the array the map holds, or
\* a fresh one
HistoryRef(sessionId) ==
  IF conversationHistories[sessionId] # 0
  THEN conversationHistories[sessionId]
  ELSE Len(heap) + 1

\* the outcome as the claims sort it: a network error, an unparseable body
\* and a response without text are failures
Outcome(res) ==
  IF res.net = "ok" /\ res.hasText /\ res.text # <<>> THEN "answered" ELSE "failed"

\* queryFlowise up to `await fetch`
AskQuestion(r, p) ==
  /\ FirstDelivery(p)
  /\ Parsed(p)
  /\ QuestionOf(p.content) # <<>>
  /\ ~StartsWith(QuestionOf(p.content), "/")
  /\ Arrive(r, p)
  /\ MarkProcessed(p)
  /\ LET sessionId == SessionIdOf(p.chatId, p.senderId)
         question == QuestionOf(p.content)
         ref == HistoryRef(sessionId)
         fresh == IF ref > Len(heap) THEN Append(heap, <<>>) ELSE heap
         pushed == [fresh EXCEPT ![ref] = Push(@, question)]
     IN  /\ heap' = pushed
         /\ conversationHistories' =
              [conversationHistories EXCEPT ![sessionId] = ref]
         /\ h' = [h EXCEPT ![r] =
                    [Passed(r, p) EXCEPT
                       !.pc = "fetch", !.history = ref, !.question = question,
                       !.afterClear = clearedLast[sessionId],
                       !.asked = [made |-> TRUE, prompt |-> PromptOf(pushed[ref])]]]
  /\ askCalls' = [askCalls EXCEPT ![p.eventId] = @ + 1]
  /\ UNCHANGED <<last, env, replyCalls, dupAcks>>
  /\ LET sessionId == SessionIdOf(p.chatId, p.senderId)
     IN  /\ clearedLast' = [clearedLast EXCEPT ![sessionId] = FALSE]
         /\ IF Awaiting(sessionId)
            THEN /\ pure' = [pure EXCEPT ![sessionId] = FALSE]
                 /\ exchanges' = [exchanges EXCEPT ![sessionId] = <<>>]
            ELSE UNCHANGED <<pure, exchanges>>
  /\ UNCHANGED failures

\* fetch and response.json() resolved with a result that has a text
FlowiseAnswered(r, res) ==
  /\ h[r].pc = "fetch"
  /\ res \in FlowiseResults
  /\ HasAnswer(res)
  /\ heap' = [heap EXCEPT ![h[r].history] = Push(@, res.text)]
  /\ conversationHistories' =
       [conversationHistories EXCEPT ![h[r].sessionId] = h[r].history]
  /\ h' = [h EXCEPT ![r] =
             reply([h[r] EXCEPT !.flowise = Outcome(res), !.answer = AnswerOf(res)],
                   res.text, ArtifactsOf(res),
                   "result")]
  /\ CountReply(h[r].p)
  /\ UNCHANGED <<processedEvents, last, budget, env, delivered, askCalls,
                 guardPasses, dupAcks>>
  /\ IF pure[h[r].sessionId]
     THEN exchanges' = [exchanges EXCEPT ![h[r].sessionId] =
                          Append(@, [q |-> h[r].question, a |-> res.text])]
     ELSE UNCHANGED exchanges
  /\ UNCHANGED <<failures, clearedLast, pure>>

\* fetch rejected, the body was not JSON, or the result has no text:
\* queryFlowise throws and handleReply's catch sends the apology
FlowiseFailed(r, res) ==
  /\ h[r].pc = "fetch"
  /\ res \in FlowiseResults
  /\ ~HasAnswer(res)
  /\ h' = [h EXCEPT ![r] =
             reply([h[r] EXCEPT !.flowise = Outcome(res)], ErrorMsg, <<>>, "result")]
  /\ CountReply(h[r].p)
  /\ UNCHANGED <<processedEvents, conversationHistories, heap, last, budget,
                 env, delivered, askCalls, guardPasses, dupAcks>>
  /\ failures' = failures \cup {h[r].p.eventId}
  /\ pure' = [pure EXCEPT ![h[r].sessionId] = FALSE]
  /\ exchanges' = [exchanges EXCEPT ![h[r].sessionId] = <<>>]
  /\ UNCHANGED clearedLast

-----------------------------------------------------------------------------
(* reply: completion of the awaited client.im.message.reply *)

Settle(rec, status) == [rec EXCEPT !.out[Len(rec.out)].status = status]

\* the send threw: the catch block logs and reply returns
SendFailed(r) ==
  /\ h[r].pc = "send"
  /\ Respond(r, Settle(h[r], "failed"), Ack(h[r]))
  /\ UNCHANGED <<processedEvents, conversationHistories, heap, budget, env,
                 delivered, replyCalls, askCalls, guardPasses, dupAcks>>
  /\ failures' = failures \cup {h[r].p.eventId}
  /\ UNCHANGED <<clearedLast, pure, exchanges>>

\* the send succeeded and the loop reaches another artifact to send
SendNextArtifact(r) ==
  /\ h[r].pc = "send"
  /\ SkipUnsent(h[r].arts) # <<>>
  /\ LET rest == SkipUnsent(h[r].arts)
         rec == Settle(h[r], "ok")
     IN  h' = [h EXCEPT ![r] =
                 [rec EXCEPT !.out = Append(@, ImageMessage(Head(rest))),
                             !.arts = Tail(rest)]]
  /\ UNCHANGED <<processedEvents, conversationHistories, heap, last, budget,
                 env, delivered, replyCalls, askCalls, guardPasses, dupAcks>>
  /\ UNCHANGED <<failures, clearedLast, pure, exchanges>>

\* the send succeeded and nothing is left to send: reply returns
SendLast(r) ==
  /\ h[r].pc = "send"
  /\ SkipUnsent(h[r].arts) = <<>>
  /\ Respond(r, [Settle(h[r], "ok") EXCEPT !.arts = <<>>], Ack(h[r]))
  /\ UNCHANGED <<processedEvents, conversationHistories, heap, budget, env,
                 delivered, replyCalls, askCalls, guardPasses, dupAcks>>
  /\ UNCHANGED <<failures, clearedLast, pure, exchanges>>

-----------------------------------------------------------------------------
(* The variant of the server in src/unnamed/part_000.  Its webhook handler  *)
(* is the one above; reply, queryFlowise and handleReply differ, and it has *)
(* uploadImage and replyWithImage.                                          *)

\* String.prototype.toLowerCase
ToLowerCase(s) ==
  [i \in 1..Len(s) |-> IF s[i] = "Histogram" THEN "histogram"
                       ELSE IF s[i] = "Chart" THEN "chart" ELSE s[i]]

\* String.prototype.includes
Includes(s, tok) == \E i \in 1..Len(s) : s[i] = tok

\* userInput.text.replace("@_user_1", "").trim()
QuestionOf0(userInput) == Trim(RemoveFirst(userInput.text, "@_user_1"))

\* question.toLowerCase().includes("histogram") || ...includes("chart")
WantsImage(question) ==
  \/ Includes(ToLowerCase(question), "histogram")
  \/ Includes(ToLowerCase(question), "chart")

\* reply(messageId, content, msgType) up to its await
reply0(rec, content) ==
  [rec EXCEPT !.pc = "send0", !.out = Append(@, TextMessage(content))]

\* replyWithImage(messageId, imageKey) up to its await
replyWithImage(rec, imageKey) ==
  [rec EXCEPT !.pc = "sendImage",
              !.out = Append(@, ImageMessage([type |-> "png", data |-> imageKey]))]

\* userInput.text is undefined: userInput.text.replace throws a TypeError
\* outside the try block of handleReply
TextAbsent0(r, p) ==
  /\ FirstDelivery(p)
  /\ Parsed(p)
  /\ ~p.content.hasText
  /\ Arrive(r, p)
  /\ MarkProcessed(p)
  /\ Reject(r, Passed(r, p))
  /\ UNCHANGED <<conversationHistories, heap, env, replyCalls, askCalls, dupAcks>>
  /\ UNCHANGED <<failures, clearedLast, pure, exchanges>>

\* handleReply and queryFlowise up to `await fetch`: there is no test of the
\* question but startsWith("/")
AskQuestion0(r, p) ==
  /\ FirstDelivery(p)
  /\ Parsed(p)
  /\ p.content.hasText
  /\ ~StartsWith(QuestionOf0(p.content), "/")
  /\ Arrive(r, p)
  /\ MarkProcessed(p)
  /\ LET sessionId == SessionIdOf(p.chatId, p.senderId)
         question == QuestionOf0(p.content)
         ref == HistoryRef(sessionId)
         fresh == IF ref > Len(heap) THEN Append(heap, <<>>) ELSE heap
         pushed == [fresh EXCEPT ![ref] = Push(@, question)]
     IN  /\ heap' = pushed
         /\ conversationHistories' =
              [conversationHistories EXCEPT ![sessionId] = ref]
         /\ h' = [h EXCEPT ![r] =
                    [Passed(r, p) EXCEPT
                       !.pc = "fetch", !.history = ref, !.question = question,
                       !.afterClear = clearedLast[sessionId],
                       !.asked = [made |-> TRUE, prompt |-> PromptOf(pushed[ref])]]]
  /\ askCalls' = [askCalls EXCEPT ![p.eventId] = @ + 1]
  /\ UNCHANGED <<last, env, replyCalls, dupAcks>>
  /\ LET sessionId == SessionIdOf(p.chatId, p.senderId)
     IN  /\ clearedLast' = [clearedLast EXCEPT ![sessionId] = FALSE]
         /\ IF Awaiting(sessionId)
            THEN /\ pure' = [pure EXCEPT ![sessionId] = FALSE]
                 /\ exchanges' = [exchanges EXCEPT ![sessionId] = <<>>]
            ELSE UNCHANGED <<pure, exchanges>>
  /\ UNCHANGED failures

\* what fs.existsSync(filePath) finds
FileStates == {"exists", "missing"}

\* the part of queryFlowise and handleReply that follows a result with a
\* text, up to the next await.  uploadImage throws when the file is missing
\* and handleReply's catch sends the apology.
FlowiseAnswered0(r, res, file) ==
  /\ h[r].pc = "fetch"
  /\ res \in FlowiseResults
  /\ file \in FileStates
  /\ HasAnswer(res)
  /\ heap' = [heap EXCEPT ![h[r].history] = Push(@, res.text)]
  /\ conversationHistories' =
       [conversationHistories EXCEPT ![h[r].sessionId] = h[r].history]
  /\ LET rec == [h[r] EXCEPT !.flowise = Outcome(res), !.answer = AnswerOf(res)]
     IN  IF ~WantsImage(h[r].question)
         THEN /\ h' = [h EXCEPT ![r] = reply0(rec, res.text)]
              /\ CountReply(h[r].p)
         ELSE IF file = "missing"
         THEN /\ h' = [h EXCEPT ![r] =
                         reply0([rec EXCEPT !.upload = "not found"], ErrorMsg)]
              /\ CountReply(h[r].p)
         ELSE /\ h' = [h EXCEPT ![r] = [rec EXCEPT !.pc = "upload"]]
              /\ UNCHANGED replyCalls
  /\ UNCHANGED <<processedEvents, last, budget, env, delivered, askCalls,
                 guardPasses, dupAcks>>
  /\ IF pure[h[r].sessionId]
     THEN exchanges' = [exchanges EXCEPT ![h[r].sessionId] =
                          Append(@, [q |-> h[r].question, a |-> res.text])]
     ELSE UNCHANGED exchanges
  /\ UNCHANGED <<failures, clearedLast, pure>>

\* queryFlowise throws and handleReply's catch sends the apology
FlowiseFailed0(r, res) ==
  /\ h[r].pc = "fetch"
  /\ res \in FlowiseResults
  /\ ~HasAnswer(res)
  /\ h' = [h EXCEPT ![r] = reply0([h[r] EXCEPT !.flowise = Outcome(res)], ErrorMsg)]
  /\ CountReply(h[r].p)
  /\ UNCHANGED <<processedEvents, conversationHistories, heap, last, budget,
                 env, delivered, askCalls, guardPasses, dupAcks>>
  /\ failures' = failures \cup {h[r].p.eventId}
  /\ pure' = [pure EXCEPT ![h[r].sessionId] = FALSE]
  /\ exchanges' = [exchanges EXCEPT ![h[r].sessionId] = <<>>]
  /\ UNCHANGED clearedLast

\* what `await client.im.image.create` and response.data.image_key yield: a
\* key, no key, or an exception
UploadOutcomes == {"key", "no key", "failed"}

\* uploadImage after its await, and what handleReply does with the result:
\* an exception is logged and thrown again, and handleReply's catch sends the
\* apology
uploadImage(r, outcome) ==
  /\ h[r].pc = "upload"
  /\ outcome \in UploadOutcomes
  /\ LET rec == [h[r] EXCEPT !.upload = outcome]
     IN  /\ h' = [h EXCEPT ![r] =
                    IF outcome = "key" THEN replyWithImage(rec, "img")
                    ELSE IF outcome = "no key" THEN reply0(rec, rec.answer.text)
                    ELSE reply0(rec, ErrorMsg)]
  /\ CountReply(h[r].p)
  /\ UNCHANGED <<processedEvents, conversationHistories, heap, last, budget,
                 env, delivered, askCalls, guardPasses, dupAcks>>
  /\ UNCHANGED <<failures, clearedLast, pure, exchanges>>

\* the send of replyWithImage succeeded: its response goes to res.json
ImageSent(r) ==
  /\ h[r].pc = "sendImage"
  /\ Respond(r, Settle(h[r], "ok"), LarkResponse)
  /\ UNCHANGED <<processedEvents, conversationHistories, heap, budget, env,
                 delivered, replyCalls, askCalls, guardPasses, dupAcks>>
  /\ UNCHANGED <<failures, clearedLast, pure, exchanges>>

\* the send of replyWithImage threw: handleReply's catch sends the apology
ImageSendFailed(r) ==
  /\ h[r].pc = "sendImage"
  /\ h' = [h EXCEPT ![r] = reply0(Settle(h[r], "failed"), ErrorMsg)]
  /\ CountReply(h[r].p)
  /\ UNCHANGED <<processedEvents, conversationHistories, heap, last, budget,
                 env, delivered, askCalls, guardPasses, dupAcks>>
  /\ failures' = failures \cup {h[r].p.eventId}
  /\ UNCHANGED <<clearedLast, pure, exchanges>>

\* the send of reply succeeded: reply returns the response
ReplySent0(r) ==
  /\ h[r].pc = "send0"
  /\ Respond(r, Settle(h[r], "ok"), LarkResponse)
  /\ UNCHANGED <<processedEvents, conversationHistories, heap, budget, env,
                 delivered, replyCalls, askCalls, guardPasses, dupAcks>>
  /\ UNCHANGED <<failures, clearedLast, pure, exchanges>>

\* the send of reply threw: the catch block logs and reply returns undefined
ReplyFailed0(r) ==
  /\ h[r].pc = "send0"
  /\ Respond(r, Settle(h[r], "failed"), JsonUndefined)
  /\ UNCHANGED <<processedEvents, conversationHistories, heap, budget, env,
                 delivered, replyCalls, askCalls, guardPasses, dupAcks>>
  /\ failures' = failures \cup {h[r].p.eventId}
  /\ UNCHANGED <<clearedLast, pure, exchanges>>

-----------------------------------------------------------------------------

Next ==
  \/ \E r \in FreeSlots, p \in Payloads : UrlVerification(r, p)
  \/ \E r \in FreeSlots, p \in Payloads : EncryptedPayload(r, p)
  \/ \E r \in FreeSlots, p \in Payloads : ConfigSelfCheck(r, p)
  \/ \E r \in FreeSlots, p \in Payloads : UnknownEvent(r, p)
  \/ \E r \in FreeSlots, p \in Payloads : MalformedEvent(r, p)
  \/ \E r \in FreeSlots, p \in Payloads : DuplicateEvent(r, p)
  \/ \E r \in FreeSlots, p \in Payloads : NonTextMessage(r, p)
  \/ \E r \in FreeSlots, p \in Payloads : ContentParseFailure(r, p)
  \/ \E r \in FreeSlots, p \in Payloads : InvalidInput(r, p)
  \/ \E r \in FreeSlots, p \in Payloads : cmdHelp(r, p)
  \/ \E r \in FreeSlots, p \in Payloads : cmdClear(r, p)
  \/ \E r \in FreeSlots, p \in Payloads : AskQuestion(r, p)
  \/ \E r \in Slots, res \in FlowiseResults : FlowiseAnswered(r, res)
  \/ \E r \in Slots, res \in FlowiseResults : FlowiseFailed(r, res)
  \/ \E r \in Slots : SendFailed(r)
  \/ \E r \in Slots : SendNextArtifact(r)
  \/ \E r \in Slots : SendLast(r)

Spec == Init /\ [][Next]_vars

\* Flowise results of SpecSession: a failure and a plain text answer
SessionResults ==
  { NetworkError,
    [NetworkError EXCEPT !.net = "ok", !.hasText = TRUE, !.text = <<"hi">>] }

InitSession ==
  /\ processedEvents = {}
  /\ conversationHistories = [s \in SessionIds |-> 0]
  /\ heap = <<>>
  /\ h = [r \in Slots |-> Idle]
  /\ last = Idle
  /\ budget = MaxSessionReq
  /\ env = [appId |-> <<"cli_", "x">>, appSecret |-> <<"s">>]
  /\ delivered = [e \in EventIds |-> 0]
  /\ replyCalls = [e \in EventIds |-> 0]
  /\ askCalls = [e \in EventIds |-> 0]
  /\ guardPasses = [e \in EventIds |-> 0]
  /\ dupAcks = [e \in EventIds |-> 0]
  /\ failures = {}
  /\ clearedLast = [s \in SessionIds |-> FALSE]
  /\ pure = [s \in SessionIds |-> TRUE]
  /\ exchanges = [s \in SessionIds |-> <<>>]

NextSession ==
  \/ \E r \in FreeSlots, p \in SessionPayloads : DuplicateEvent(r, p)
  \/ \E r \in FreeSlots, p \in SessionPayloads : cmdClear(r, p)
  \/ \E r \in FreeSlots, p \in SessionPayloads : AskQuestion(r, p)
  \/ \E r \in Slots, res \in SessionResults : FlowiseAnswered(r, res)
  \/ \E r \in Slots, res \in SessionResults : FlowiseFailed(r, res)
  \/ \E r \in Slots : SendFailed(r)
  \/ \E r \in Slots : SendLast(r)

SpecSession == InitSession /\ [][NextSession]_vars

\* the steps of SpecAsk: question handlers of one session, with distinct and
\* with repeated event ids
NextAsk ==
  \/ \E r \in FreeSlots, p \in AskPayloads : DuplicateEvent(r, p)
  \/ \E r \in FreeSlots, p \in AskPayloads : AskQuestion(r, p)
  \/ \E r \in Slots, res \in SessionResults : FlowiseAnswered(r, res)
  \/ \E r \in Slots, res \in SessionResults : FlowiseFailed(r, res)
  \/ \E r \in Slots : SendFailed(r)
  \/ \E r \in Slots : SendLast(r)

SpecAsk == InitSession /\ [][NextAsk]_vars

InitPairs ==
  /\ processedEvents = {}
  /\ conversationHistories = [s \in SessionIds |-> 0]
  /\ heap = <<>>
  /\ h = [r \in Slots |-> Idle]
  /\ last = Idle
  /\ budget = MaxPairReq
  /\ env = [appId |-> <<"cli_", "x">>, appSecret |-> <<"s">>]
  /\ delivered = [e \in EventIds |-> 0]
  /\ replyCalls = [e \in EventIds |-> 0]
  /\ askCalls = [e \in EventIds |-> 0]
  /\ guardPasses = [e \in EventIds |-> 0]
  /\ dupAcks = [e \in EventIds |-> 0]
  /\ failures = {}
  /\ clearedLast = [s \in SessionIds |-> FALSE]
  /\ pure = [s \in SessionIds |-> TRUE]
  /\ exchanges = [s \in SessionIds |-> <<>>]

\* the steps of SpecPairs: questions and commands of several sessions, every
\* question answered by the Flowise API
NextPairs ==
  \/ \E r \in FreeSlots, p \in PairPayloads : DuplicateEvent(r, p)
  \/ \E r \in FreeSlots, p \in PairPayloads : cmdHelp(r, p)
  \/ \E r \in FreeSlots, p \in PairPayloads : cmdClear(r, p)
  \/ \E r \in FreeSlots, p \in PairPayloads : AskQuestion(r, p)
  \/ \E r \in Slots, res \in SessionResults : FlowiseAnswered(r, res)
  \/ \E r \in Slots : SendFailed(r)
  \/ \E r \in Slots : SendLast(r)

SpecPairs == InitPairs /\ [][NextPairs]_vars

InitImage ==
  /\ processedEvents = {}
  /\ conversationHistories = [s \in SessionIds |-> 0]
  /\ heap = <<>>
  /\ h = [r \in Slots |-> Idle]
  /\ last = Idle
  /\ budget = MaxImageReq
  /\ env = [appId |-> <<"cli_", "x">>, appSecret |-> <<"s">>]
  /\ delivered = [e \in EventIds |-> 0]
  /\ replyCalls = [e \in EventIds |-> 0]
  /\ askCalls = [e \in EventIds |-> 0]
  /\ guardPasses = [e \in EventIds |-> 0]
  /\ dupAcks = [e \in EventIds |-> 0]
  /\ failures = {}
  /\ clearedLast = [s \in SessionIds |-> FALSE]
  /\ pure = [s \in SessionIds |-> TRUE]
  /\ exchanges = [s \in SessionIds |-> <<>>]

\* the steps of the server of src/unnamed/part_000 on ImagePayloads
NextImage ==
  \/ \E r \in FreeSlots, p \in ImagePayloads : DuplicateEvent(r, p)
  \/ \E r \in FreeSlots, p \in ImagePayloads : TextAbsent0(r, p)
  \/ \E r \in FreeSlots, p \in ImagePayloads : AskQuestion0(r, p)
  \/ \E r \in Slots, res \in SessionResults, file \in FileStates :
       FlowiseAnswered0(r, res, file)
  \/ \E r \in Slots, res \in SessionResults : FlowiseFailed0(r, res)
  \/ \E r \in Slots, outcome \in UploadOutcomes : uploadImage(r, outcome)
  \/ \E r \in Slots : ImageSent(r)
  \/ \E r \in Slots : ImageSendFailed(r)
  \/ \E r \in Slots : ReplySent0(r)
  \/ \E r \in Slots : ReplyFailed0(r)

SpecImage == InitImage /\ [][NextImage]_vars

-----------------------------------------------------------------------------
(* Vocabulary of the properties *)

DuplicateAck == Code(0, "Duplicate event")

\* the handlers in flight and the one that ended last
Handlers == {h[r] : r \in Slots} \cup {last}

InFlight(e) == \E r \in Slots : h[r].pc # "idle" /\ h[r].p.eventId = e

\* what a lookup of the session in the store observes
Stored(sessionId) ==
  IF conversationHistories[sessionId] = 0
  THEN [present |-> FALSE, items |-> <<>>]
  ELSE [present |-> TRUE, items |-> heap[conversationHistories[sessionId]]]

\* [q1, a1, q2, a2, ...]
RECURSIVE Interleaved(_)
Interleaved(pairs) ==
  IF pairs = <<>> THEN <<>>
  ELSE <<Head(pairs).q, Head(pairs).a>> \o Interleaved(Tail(pairs))

-----------------------------------------------------------------------------
(* C1: submitting the same message event twice results in exactly one      *)
(* reply in total, and the second submission is acknowledged with          *)
(* {code:0, message:"Duplicate event"}.                                    *)
(* Stated for an event id that was delivered twice and whose handlers have *)
(* ended.  The code violates it: a first delivery whose content JSON.parse *)
(* rejects is recorded in processedEvents and never replied to.            *)
C1_OneReplyPerEvent ==
  \A e \in EventIds :
    (delivered[e] = 2 /\ ~InFlight(e)) =>
      (replyCalls[e] = 1 /\ dupAcks[e] = 1)

-----------------------------------------------------------------------------
(* C2: under every interleaving of the handlers in flight, at most one     *)
(* delivery per event id passes the dedup guard, and so at most one        *)
(* handler per event id replies, calls the Flowise API or holds a history. *)
C2_AtMostOnePass ==
  \A e \in EventIds :
    /\ guardPasses[e] <= 1
    /\ replyCalls[e] <= 1
    /\ askCalls[e] <= 1
    /\ Cardinality({r \in Slots : h[r].passed /\ h[r].p.eventId = e}) <= 1

\* a second delivery was answered "Duplicate event" while the handler of
\* the first was still awaiting its I/O
C2_Witness ==
  /\ last.resp = DuplicateAck
  /\ \E r \in Slots : h[r].passed /\ h[r].p.eventId = last.p.eventId

-----------------------------------------------------------------------------
(* C3: the event id is in processedEvents no later than the first reply    *)
(* or Flowise call made for it, and a redelivery of an id already in the   *)
(* set ends at once with "Duplicate event": no reply, no Flowise call, no  *)
(* change of any history, whatever became of the first handler.            *)
C3_NoReprocessing ==
  [][ /\ \A e \in EventIds :
           (replyCalls'[e] > 0 \/ askCalls'[e] > 0) => e \in processedEvents'
      /\ \A e \in EventIds :
           (e \in processedEvents /\ delivered'[e] = delivered[e] + 1) =>
             /\ replyCalls' = replyCalls
             /\ askCalls' = askCalls
             /\ conversationHistories' = conversationHistories
             /\ heap' = heap
             /\ h' = h
             /\ last'.resp = DuplicateAck
    ]_vars

\* the handler of an event met a failure and has ended; the event was then
\* delivered again and answered "Duplicate event"
C3_Witness ==
  /\ last.resp = DuplicateAck
  /\ last.p.eventId \in failures
  /\ ~InFlight(last.p.eventId)

-----------------------------------------------------------------------------
(* C4: once "/clear" was handled for a session, the next question of that  *)
(* session is sent to Flowise with a prompt that is exactly the question.  *)
(* The code violates it: a handler that was awaiting Flowise when "/clear" *)
(* ran stores its old array again when the answer arrives.                 *)
C4_ClearThenAsk ==
  \A rec \in Handlers :
    (rec.asked.made /\ rec.afterClear) => rec.asked.prompt = rec.question

-----------------------------------------------------------------------------
(* C5: in a session that started without a history and has seen N          *)
(* successful exchanges, one at a time, the stored history is              *)
(* [q1, a1, ..., qN, aN]; after "/clear" the session has no entry at all.  *)
C5_RoundTrip ==
  \A s \in SessionIds :
    (pure[s] /\ ~Awaiting(s)) =>
      Stored(s) = [present |-> exchanges[s] # <<>>,
                   items |-> Interleaved(exchanges[s])]

\* two exchanges have succeeded one after the other, and "/clear" was
\* handled after them: the entry is gone
C5_Witness ==
  \E s \in SessionIds :
    /\ pure[s] /\ clearedLast[s] /\ ~Stored(s).present
    /\ askCalls[1] = 1 /\ askCalls[2] = 1 /\ guardPasses[3] = 1
    /\ failures = {}

-----------------------------------------------------------------------------
(* C6: the webhook handler answers every request body and no exception     *)
(* leaves it.  The code violates it: JSON.parse of the content, the read   *)
(* of userInput.text and the destructuring of params.event.message are     *)
(* outside any try block of the async handler.                             *)
C6_AlwaysAcknowledged ==
  last.pc # "idle" => (last.pc = "done" /\ last.resp # Unhandled)

-----------------------------------------------------------------------------
(* C7: a first delivery of a text message with a non-empty, non-command    *)
(* text calls Flowise with the mention-stripped text and is acknowledged   *)
(* with code 0; every acknowledgment of a body with a header has a code    *)
(* in {0, 1, 2}.  The code violates it: handleReply returns what reply     *)
(* returns, which is undefined, and the handler passes it to res.json.     *)
IsQuestion(rec) ==
  /\ rec.passed /\ Parsed(rec.p)
  /\ QuestionOf(rec.p.content) # <<>>
  /\ ~StartsWith(QuestionOf(rec.p.content), "/")

EndsWith(s, t) ==
  Len(t) <= Len(s) /\ SubSeq(s, Len(s) - Len(t) + 1, Len(s)) = t

C7_AckCodes ==
  /\ (last.pc = "done" /\ last.p.hasHeader) => last.resp.code \in {0, 1, 2}
  /\ \A rec \in Handlers :
       IsQuestion(rec) =>
         /\ rec.asked.made
         /\ EndsWith(rec.asked.prompt,
                     Trim(RemoveFirst(rec.p.content.text, "@_user_1")))
         /\ rec.pc = "done" => rec.resp.code = 0

-----------------------------------------------------------------------------
(* C8: a first delivery of a message that is not of type "text" makes no   *)
(* Flowise call and creates or changes no history at any of its steps; it  *)
(* sends exactly one message, "Only text messages are supported.", and is  *)
(* acknowledged with {code: 0}.                                            *)
C8_NonTextOnlyNotice ==
  [][ \A r \in Slots :
        LET rec == IF h'[r].pc = "idle" THEN last' ELSE h'[r]
        IN  (h'[r] # h[r] /\ rec.passed /\ rec.p.messageType # "text") =>
              /\ conversationHistories' = conversationHistories
              /\ heap' = heap
              /\ askCalls' = askCalls
              /\ ~rec.asked.made
              /\ replyCalls'[rec.p.eventId] = 1
              /\ Len(rec.out) = 1
              /\ rec.out[1].msg_type = "text"
              /\ rec.out[1].content = OnlyTextMsg
              /\ rec.pc \in {"send", "done"}
              /\ rec.pc = "done" => rec.resp = Code(0, "")
    ]_vars

\* the handler of an image message has ended
C8_Witness ==
  /\ last.pc = "done" /\ last.passed
  /\ last.p.messageType = "image"
  /\ last.out[1].status = "ok"

-----------------------------------------------------------------------------
(* C9: when the Flowise call fails (network error, unparseable body, or a  *)
(* response without text) nothing is appended to or removed from any       *)
(* history, so the question pushed before the call stays in its array; the *)
(* handler sends the fixed apology and ends with a response.               *)
C9_FailureKeepsQuestion ==
  [][ /\ \A r \in Slots :
           (h[r].pc = "fetch" /\ h'[r] # h[r] /\ h'[r].flowise = "failed") =>
             /\ heap' = heap
             /\ conversationHistories' = conversationHistories
             /\ \E i \in 1..Len(heap'[h[r].history]) :
                  heap'[h[r].history][i] = h[r].question
             /\ h'[r].pc = "send"
             /\ h'[r].out = <<TextMessage(ErrorMsg)>>
      /\ last'.flowise = "failed" => last'.pc = "done"
    ]_vars

\* the handler of a question whose Flowise call failed has ended
C9_Witness ==
  /\ last.flowise = "failed" /\ last.pc = "done"
  /\ last.out = <<[TextMessage(ErrorMsg) EXCEPT !.status = "ok"]>>
  /\ Stored(last.sessionId).items = <<last.question>>

-----------------------------------------------------------------------------
(* C10: for an answer {text, artifacts} reply sends one text message and   *)
(* then one image message per artifact, in the artifacts' order.           *)
(* The code violates it: the loop of reply is inside the try block, so the *)
(* first failed send ends it, and it skips artifacts whose type is not     *)
(* "png".                                                                  *)
C10_OneMessagePerArtifact ==
  (last.pc = "done" /\ last.flowise = "answered") =>
    LET arts == IF last.answer.hasArtifacts THEN last.answer.artifacts ELSE <<>>
    IN  /\ Len(last.out) = 1 + Len(arts)
        /\ last.out[1].msg_type = "text"
        /\ \A i \in 1..Len(arts) :
             /\ last.out[i + 1].msg_type = "image"
             /\ last.out[i + 1].content = <<arts[i].data>>

-----------------------------------------------------------------------------
(* C11: delivery is best-effort per message: when the send of one artifact *)
(* message fails, a send is still attempted for every later artifact of    *)
(* the answer.                                                             *)
(* The code violates it: the for loop of reply is inside the try block, so *)
(* the exception of one send ends the loop.                                *)
RECURSIVE Sent(_)
Sent(arts) ==
  IF arts = <<>> THEN <<>>
  ELSE IF SendsMessage(Head(arts)) THEN <<Head(arts)>> \o Sent(Tail(arts))
  ELSE Sent(Tail(arts))

C11_BestEffortArtifacts ==
  ( /\ last.pc = "done" /\ last.flowise = "answered"
    /\ \E i \in 2..Len(last.out) : last.out[i].status = "failed" ) =>
      Len(last.out) = 1 + Len(Sent(ArtifactsOf(last.answer)))

-----------------------------------------------------------------------------
(* C12: a first-delivered text that starts with "/" goes to the command    *)
(* router and never to the Flowise API: "/clear" removes the entry of the  *)
(* session and sends the confirmation, "/help" and every other slash text  *)
(* send the usage message, and none of them appends to a history or is     *)
(* answered with the error message.                                        *)
IsClearText(t) == t = <<"/", "clear">>

C12_CommandsRouted ==
  [][ \A r \in Slots :
        /\ ( /\ h[r].pc = "idle" /\ h'[r].passed
             /\ h'[r].p.messageType = "text"
             /\ h'[r].p.content.parses = "obj"
             /\ h'[r].p.content.text \in CommandTexts ) =>
               /\ h'[r].pc = "send"
               /\ h'[r].out =
                    << TextMessage(IF IsClearText(h'[r].p.content.text)
                                   THEN ClearedMsg ELSE helpText) >>
               /\ SkipUnsent(h'[r].arts) = <<>>
               /\ ~h'[r].asked.made
               /\ h'[r].history = 0
               /\ askCalls' = askCalls
               /\ heap' = heap
               /\ conversationHistories' =
                    IF IsClearText(h'[r].p.content.text)
                    THEN [conversationHistories EXCEPT ![h'[r].sessionId] = 0]
                    ELSE conversationHistories
        /\ ( /\ h[r].pc # "idle" /\ h'[r].pc = "idle"
             /\ h[r].p.messageType = "text"
             /\ h[r].p.content.parses = "obj"
             /\ h[r].p.content.text \in CommandTexts ) =>
               /\ last'.pc = "done"
               /\ Len(last'.out) = 1
               /\ askCalls' = askCalls
               /\ heap' = heap
               /\ conversationHistories' = conversationHistories
    ]_vars

\* "/foo" was answered with the usage message
C12_Witness ==
  /\ last.pc = "done"
  /\ last.p.content.text = <<"/", "foo">>
  /\ last.out = << [TextMessage(helpText) EXCEPT !.status = "ok"] >>
  /\ ~last.asked.made

-----------------------------------------------------------------------------
(* C13: the command handlers change nothing but what they are for: they    *)
(* remove no id from processedEvents and add none (the only id that enters *)
(* the set in a command's step is the event's own, inserted by the         *)
(* dispatcher before it routes), the usage message leaves every stored     *)
(* history unchanged, and "/clear" changes the entry of the issuing        *)
(* session only.                                                           *)
IsCommandText(p) ==
  /\ p.messageType = "text" /\ p.content.parses = "obj"
  /\ p.content.text \in CommandTexts

C13_CommandFrame ==
  [][ \A r \in Slots :
        /\ (h[r].pc = "idle" /\ h'[r].passed /\ IsCommandText(h'[r].p)) =>
             /\ processedEvents \subseteq processedEvents'
             /\ processedEvents' \ processedEvents \subseteq {h'[r].p.eventId}
             /\ heap' = heap
             /\ \A s \in SessionIds :
                  /\ s # h'[r].sessionId =>
                       conversationHistories'[s] = conversationHistories[s]
                  /\ ~IsClearText(h'[r].p.content.text) =>
                       conversationHistories'[s] = conversationHistories[s]
        /\ (h[r].pc # "idle" /\ h'[r].pc = "idle" /\ IsCommandText(h[r].p)) =>
             /\ processedEvents' = processedEvents
             /\ heap' = heap
             /\ conversationHistories' = conversationHistories
    ]_vars

\* "/clear" removed the entry of the session "abc", created after the one
\* of the session "ac", which is still stored
C13_Witness ==
  /\ last.pc = "done"
  /\ IsClearText(last.p.content.text)
  /\ last.sessionId = <<"a", "b", "c">>
  /\ ~Stored(<<"a", "b", "c">>).present
  /\ conversationHistories[<<"a", "c">>] = 1
  /\ Len(heap) = 2

-----------------------------------------------------------------------------
(* C14: a payload that is not a message event changes no state and sends   *)
(* no reply; a verification handshake is answered with its challenge, an   *)
(* encrypted payload with code 1, a payload without header with the result *)
(* of the configuration self-check (code 0 or 1) and any other event type  *)
(* with {code: 2}; the tests apply in that order, whatever else the        *)
(* payload carries.                                                        *)
NotMessageEvent(p) ==
  \/ p.type = "url_verification"
  \/ p.encrypt
  \/ ~p.hasHeader
  \/ p.eventType # "im.message.receive_v1"

C14_NonMessagePayloads ==
  [][ budget' = budget - 1 =>
        LET p == IF h' = h THEN last'.p
                 ELSE h'[CHOOSE r \in Slots : h'[r] # h[r]].p
        IN  NotMessageEvent(p) =>
              /\ h' = h
              /\ last'.pc = "done"
              /\ last'.out = <<>>
              /\ ~last'.asked.made
              /\ processedEvents' = processedEvents
              /\ conversationHistories' = conversationHistories
              /\ heap' = heap
              /\ replyCalls' = replyCalls
              /\ askCalls' = askCalls
              /\ IF p.type = "url_verification"
                 THEN last'.resp = Challenge(p.challenge)
                 ELSE IF p.encrypt
                 THEN last'.resp.body = "json" /\ last'.resp.code = 1
                 ELSE IF ~p.hasHeader
                 THEN /\ last'.resp = validateAppConfig(env)
                      /\ last'.resp.body = "json" /\ last'.resp.code \in {0, 1}
                 ELSE last'.resp = Code(2, "")
    ]_vars

\* a body that is a verification handshake, is encrypted and has the header
\* of a message event was answered with the challenge
C14_Witness ==
  /\ last.pc = "done"
  /\ last.p.type = "url_verification" /\ last.p.encrypt /\ last.p.hasHeader
  /\ last.resp = Challenge("abc")

-----------------------------------------------------------------------------
(* C15: a first-delivered text message whose text is absent, or empty once *)
(* the mention is removed and the rest trimmed, gets the "invalid input"   *)
(* reply and nothing else: no Flowise call, no command, no change of a     *)
(* history.                                                                *)
(* handleReply of src/index.js does this.  handleReply of                  *)
(* src/unnamed/part_000 has no such test: an absent text throws, an empty  *)
(* question is appended to the history and sent to the Flowise API.        *)
NoQuestion(p) ==
  /\ p.messageType = "text" /\ p.content.parses = "obj"
  /\ \/ ~p.content.hasText
     \/ p.content.text \in EmptyTexts \cup {<<>>}

C15_InvalidInputStops ==
  \A rec \in Handlers :
    (rec.passed /\ NoQuestion(rec.p)) =>
      /\ rec.pc \in {"send", "done"}
      /\ rec.out = << [TextMessage(InvalidInputMsg) EXCEPT
                         !.status = rec.out[1].status] >>
      /\ ~rec.asked.made
      /\ rec.history = 0
      /\ \A i \in 1..Len(heap) : \A j \in 1..Len(heap[i]) : heap[i][j] # <<>>

-----------------------------------------------------------------------------
(* C16: in the image path a failed upload (file not found, or a failure of *)
(* the transport) is thrown again by uploadImage, and its caller then      *)
(* falls back to a text-only reply that carries the answer the Flowise API *)
(* gave to the question.                                                   *)
(* The code violates the second half: the exception reaches the catch of   *)
(* handleReply, which sends the apology instead of the answer.             *)
C16_UploadFailureFallsBack ==
  \A rec \in Handlers :
    (rec.flowise = "answered" /\ rec.upload \in {"not found", "failed"}) =>
      /\ rec.pc \in {"send0", "done"}
      /\ \A i \in 1..Len(rec.out) : rec.out[i].msg_type = "text"
      /\ \E i \in 1..Len(rec.out) :
           rec.out[i].content = formatMarkdown(rec.answer.text)

-----------------------------------------------------------------------------
(* Vocabulary of the claims about the order of a history *)

\* the texts the Flowise API answers with; the questions are other texts
AnswerTexts == {res.text : res \in {x \in FlowiseResults : Outcome(x) = "answered"}}

IsPrefix(s, t) == Len(s) <= Len(t) /\ \A i \in 1..Len(s) : s[i] = t[i]

\* question, answer, question, answer, ..., with at most one question
\* pending at the end
Alternating(items) ==
  \A i \in 1..Len(items) : (items[i] \in AnswerTexts) <=> (i % 2 = 0)

\* every prefix holds at least as many questions as answers
Balanced(items) ==
  \A k \in 1..Len(items) :
    2 * Cardinality({i \in 1..k : items[i] \in AnswerTexts}) <= k

-----------------------------------------------------------------------------
(* C17, as the spec states it: every stored history alternates question,   *)
(* answer, question, answer, with at most one pending question at its end, *)
(* and changes only by an append at its end, also after failed Flowise     *)
(* calls and with several questions of the session in flight.              *)
(* The alternation fails: the question of a failed call stays, and the     *)
(* questions of concurrent handlers are appended before either answer.     *)
C17_Alternating ==
  [][ \A s \in SessionIds :
        /\ Alternating(Stored(s).items)'
        /\ (Stored(s).present /\ Stored(s).present') =>
             IsPrefix(Stored(s).items, Stored(s).items')
    ]_vars

(* C17, amended: every history array changes only by the append of one     *)
(* element at its end, and every prefix of it holds at least as many       *)
(* questions as answers (an answer is appended only by a handler whose     *)
(* question is already in the array).  Questions may follow one another.   *)
C17_AppendOnlyBalanced ==
  [][ /\ Len(heap') >= Len(heap)
      /\ \A i \in 1..Len(heap) :
           /\ IsPrefix(heap[i], heap'[i])
           /\ Len(heap'[i]) <= Len(heap[i]) + 1
      /\ \A i \in 1..Len(heap') : Balanced(heap'[i])
    ]_vars

\* a stored history in which the question of a failed call is followed by
\* the next question and its answer
C17_Witness ==
  \E s \in SessionIds :
    /\ Stored(s).present
    /\ Len(Stored(s).items) >= 3
    /\ Stored(s).items[1] \notin AnswerTexts
    /\ Stored(s).items[2] \notin AnswerTexts
    /\ Stored(s).items[3] \in AnswerTexts
    /\ failures # {}
    /\ \A r \in Slots : h[r].pc = "idle"

-----------------------------------------------------------------------------
(* C18: a "/clear" is never undone by a handler that started before it:    *)
(* once "/clear" has removed the entry of a session, the entry stays       *)
(* absent until a question delivered after the "/clear" is handled, also   *)
(* when a handler of the session was awaiting the Flowise API at the time  *)
(* of the "/clear" and gets its answer afterwards.                         *)
(* The code violates it: that handler stores its array again.              *)
C18_ClearNotUndone ==
  \A s \in SessionIds : clearedLast[s] => ~Stored(s).present

-----------------------------------------------------------------------------
(* C19: two events whose (chatId, senderId) pairs differ never share a     *)
(* history: no handler reads, appends to or clears the history that the    *)
(* handler of another pair uses, whatever strings the two ids are.         *)
(* The code violates it: the session id is the two ids written one after   *)
(* the other, so ("ab", "c") and ("a", "bc") have the same session.        *)
C19_PairsDoNotShare ==
  \A x \in Handlers, y \in Handlers :
    (x.history # 0 /\ x.history = y.history) =>
      (x.p.chatId = y.p.chatId /\ x.p.senderId = y.p.senderId)

-----------------------------------------------------------------------------
(* C20: no update of a session's history is lost under concurrency.  With  *)
(* question handlers of one session, distinct event ids and no "/clear",   *)
(* every step that asks appends exactly its question to the stored history *)
(* of the session, every step that gets an answer appends exactly that     *)
(* answer, and no other step changes the stored history; so once every     *)
(* handler has ended the history holds each question once and each         *)
(* returned answer once, the answer after its question.                    *)
Asking(s) ==
  {r \in Slots : h[r].pc = "idle" /\ h'[r].pc = "fetch" /\ h'[r].sessionId = s}

Answered(s) ==
  {r \in Slots : h[r].pc = "fetch" /\ h[r].sessionId = s
                   /\ h'[r].flowise = "answered"}

C20_NoLostUpdate ==
  [][ \A s \in SessionIds :
        /\ Stored(s).items' =
             Stored(s).items \o
               ( IF Asking(s) # {}
                 THEN << h'[CHOOSE r \in Asking(s) : TRUE].question >>
                 ELSE IF Answered(s) # {}
                 THEN << h'[CHOOSE r \in Answered(s) : TRUE].answer.text >>
                 ELSE <<>> )
        /\ Balanced(Stored(s).items')
        /\ (\A r \in Slots : h'[r].pc # "fetch") =>
             Cardinality({i \in 1..Len(Stored(s).items') :
                            Stored(s).items'[i] \notin AnswerTexts})
               = Cardinality({e \in EventIds :
                                /\ askCalls'[e] = 1
                                /\ s = SessionIdOf(<<"a">>, <<"c">>)})
    ]_vars

\* two handlers of the session were awaiting the Flowise API together, both
\* got an answer and both have ended
C20_Witness ==
  /\ \A r \in Slots : h[r].pc = "idle"
  /\ Len(Stored(<<"a", "c">>).items) = 4
  /\ Stored(<<"a", "c">>).items[2] \notin AnswerTexts
  /\ Stored(<<"a", "c">>).items[3] \in AnswerTexts
  /\ Stored(<<"a", "c">>).items[4] \in AnswerTexts

=============================================================================
